---- MODULE Spec2Model ----
(***************************************************************************)
(* The image augmentor: createImageAugmentor(config) returns an async      *)
(* function; each invocation runs applyTransformations on one image.       *)
(*                                                                         *)
(* Numbers.  JavaScript numbers are modelled as exact rationals:           *)
(*   - a configured range is an integer numerator over RangeDen;           *)
(*   - Math.random() returns k / RandDen for k in 0 .. RandDen-1, so it    *)
(*     lies in [0, 1) and includes 0;                                      *)
(*   - a value sampled by getRandomInRange is a numerator over             *)
(*     SampleDen = RandDen * RangeDen;                                     *)
(*   - a blur sigma is a numerator over SigmaDen = 10 * SampleDen.         *)
(*                                                                         *)
(* Images.  The image library is outside the repository.  Every call the   *)
(* source makes on it is modelled as the operation it names, applied in    *)
(* the order the source calls it, on an image descriptor that holds the    *)
(* raster's width and height and the place of the source picture's         *)
(* top-left pixel inside it.  An extract whose region is not a positive    *)
(* area inside its image fails, and the invocation's promise is rejected;  *)
(* the model rejects at the stage that issues the extract.                 *)
(*                                                                         *)
(* Pipeline.  The module follows the pipeline that pads the source into a  *)
(* working canvas (createImageAugmentor with transposeImage and            *)
(* cropToCenter).  augmentor.js holds an earlier pipeline without the      *)
(* canvas; its blur stage is the same code.                                *)
(*                                                                         *)
(* Steps.  An invocation advances one stage at a time.  Only the awaits    *)
(* let another invocation run, and between two awaits an invocation        *)
(* touches nothing but its own locals, so interleaving at every stage      *)
(* yields the same shared states as interleaving at the awaits.            *)
(***************************************************************************)
EXTENDS Integers, Sequences, FiniteSets, TLC

\* ------------------------------------------------------------------ bounds

\* Math.random() is drawn from { k / RandDen : k \in 0 .. RandDen - 1 }.
RandDen == 4

\* Ranges are multiples of 1 / RangeDen.
RangeDen == 100

\* Input images are w x h with w, h \in 1 .. MaxDim.
MaxDim == 2

\* Invocations of the augmentor function that may exist.
NumInv == 2

SampleDen == RandDen * RangeDen

SigmaDen == 10 * SampleDen

Invs == 1 .. NumInv

Rands == 0 .. (RandDen - 1)

Dims == 1 .. MaxDim

\* ---------------------------------------------------------------- numerics

Max(a, b) == IF a >= b THEN a ELSE b

Min(a, b) == IF a <= b THEN a ELSE b

Abs(a) == IF a >= 0 THEN a ELSE -a

\* Math.floor(num / den), den > 0.
Floor(num, den) == num \div den

\* Math.round(num / den), den > 0: the nearest integer, a tie going up.
Round(num, den) == (2 * num + den) \div (2 * den)

\* A test for "configured" that lets a range of 0 through.
TruthyDefined(range) == range = range

\* if (range): a number is truthy unless it is 0.
Truthy(range) == range # 0

\* getRandomInRange without its "- range".
GetRandomInRangeNoShift(range, k) == 2 * k * range

\* getRandomInRange(range) with Math.random() = k / RandDen; over SampleDen.
GetRandomInRange(range, k) == 2 * k * range - range * RandDen

\* (Math.random() - 0.5) * 2 * range with Math.random() = k / RandDen; over
\* SampleDen.
CenteredSample(range, k) == (2 * k - RandDen) * range

\* Math.round((Math.random() - 0.5) * 2 * transposeRange)
RandomTranspose(range, k) == Round(CenteredSample(range, k), SampleDen)

\* Blur sigma bounds, over SigmaDen.
MinBlurSigma == 3 * SampleDen

BlurCeiling == 1000 * SigmaDen

\* Math.min(blurRange * scalingFactor, 1000), over SigmaDen.
MaxBlurSigma(range) == Min(10 * range * 10 * RandDen, BlurCeiling)

\* Math.random() * (maxBlurSigma - minBlurSigma) + minBlurSigma, over SigmaDen.
RandomBlurSigma(range, k) ==
    (k * (MaxBlurSigma(range) - MinBlurSigma)) \div RandDen + MinBlurSigma

\* The sigma without the Math.max(0.3, ...) around it.
BlurSigmaNoFloor(range, k) == Min(RandomBlurSigma(range, k), BlurCeiling)

\* Math.max(0.3, Math.min(randomBlurSigma, 1000)): the sigma given to blur.
BlurSigma(range, k) == Max(MinBlurSigma, Min(RandomBlurSigma(range, k), BlurCeiling))

\* Math.min(sharpenRange * scalingFactor, 10), over RangeDen.
MaxSharpenSigma(range) == Min(range * 999999, 10 * RangeDen)

\* ------------------------------------------------------------------ images

\* An image: its size, where the source picture's top-left pixel lies in it,
\* and whether the picture is still an unscaled, unrotated copy (exact).
Image(w, h, l, t, e) == [width |-> w, height |-> h, left |-> l, top |-> t, exact |-> e]

NoImage == Image(0, 0, 0, 0, FALSE)

\* An extract request together with the size of the image it is applied to.
Region(l, t, w, h, img) ==
    [left |-> l, top |-> t, width |-> w, height |-> h,
     imgWidth |-> img.width, imgHeight |-> img.height]

\* extract accepts non-negative offsets and positive sizes, and the region
\* must lie inside the image.
RegionOk(r) ==
    /\ r.left >= 0
    /\ r.top >= 0
    /\ r.width > 0
    /\ r.height > 0
    /\ r.left + r.width <= r.imgWidth
    /\ r.top + r.height <= r.imgHeight

\* image.extract({left, top, width, height})
Extract(img, l, t, w, h) == Image(w, h, img.left - l, img.top - t, img.exact)

\* image.extend({top, bottom, left, right, background})
Extend(img, t, b, l, r) ==
    Image(img.width + l + r, img.height + t + b, img.left + l, img.top + t, img.exact)

\* image.resize(w, h): the result is w x h; the picture is rescaled unless the
\* size is unchanged.
Resize(img, w, h) ==
    IF img.width = w /\ img.height = h
    THEN img
    ELSE Image(w, h, (img.left * w) \div img.width, (img.top * h) \div img.height, FALSE)

\* image.affine([[1, sx], [sy, 1]]) with sx, sy over SampleDen: the result is
\* the bounding box of the sheared raster.
Affine(img, sx, sy) ==
    IF sx = 0 /\ sy = 0
    THEN img
    ELSE Image(img.width + (Abs(sx) * img.height + SampleDen - 1) \div SampleDen,
               img.height + (Abs(sy) * img.width + SampleDen - 1) \div SampleDen,
               img.left, img.top, FALSE)

\* The sizes image.rotate(angle) can produce: the bounding box of the rotated
\* raster, whose sides lie between the shorter side and the sum of the sides.
RotatedSizes(img, angle) ==
    IF angle = 0
    THEN {<<img.width, img.height>>}
    ELSE LET lo == Min(img.width, img.height)
             hi == img.width + img.height
         IN  {<<img.width, img.height>>, <<img.height, img.width>>, <<hi, hi>>, <<lo, hi>>}

\* image.rotate(angle) giving a raster of size wh.
Rotate(img, angle, wh) ==
    IF angle = 0 THEN img ELSE Image(wh[1], wh[2], img.left, img.top, FALSE)

\* ------------------------------------------------------------ configuration

Effects ==
    {"shearRange", "rotationRange", "blurRange", "zoomRange", "sharpenRange",
     "brightnessRange", "saturationRange", "contrastRange", "transposeRange"}

\* The range an enabled effect has in the on/off configurations, over RangeDen.
DefaultRange(e) ==
    CASE e = "shearRange" -> 10
      [] e = "rotationRange" -> 3000
      [] e = "blurRange" -> 10
      [] e = "zoomRange" -> 50
      [] e = "sharpenRange" -> 200
      [] e = "transposeRange" -> 100
      [] OTHER -> 50

\* Further ranges tried for an effect on its own, over RangeDen: small, large,
\* fractional and negative ones.
VariantRanges(e) ==
    CASE e = "shearRange" -> {-10, 150}
      [] e = "rotationRange" -> {-3000, 18000}
      [] e = "blurRange" -> {-10, 1, 500, 20000}
      [] e = "zoomRange" -> {-50, 200}
      [] e = "sharpenRange" -> {1}
      [] e = "transposeRange" -> {-100, 60, 250, 700}
      [] OTHER -> {-50}

\* const { shearRange = 0, ... } = transformationConfig: an absent range is 0.
ZeroConfig == [e \in Effects |-> 0]

Geometric == {"shearRange", "rotationRange", "transposeRange", "zoomRange"}

Photometric == Effects \ Geometric

\* The sets of enabled effects tried: every set of geometric effects, each with
\* no photometric effect, with one of them, and with all of them.
EnabledSets ==
    {G \cup P : G \in SUBSET Geometric,
                P \in {{}, Photometric} \cup {{e} : e \in Photometric}}

OnOffConfigs == {[e \in Effects |-> IF e \in S THEN DefaultRange(e) ELSE 0] : S \in EnabledSets}

VariantConfigs ==
    UNION {{[ZeroConfig EXCEPT ![e] = v] : v \in VariantRanges(e)} : e \in Effects}

Configs == OnOffConfigs \cup VariantConfigs

\* The configurations the concurrent specification runs.
ConcConfigs == {ZeroConfig, [ZeroConfig EXCEPT !["blurRange"] = DefaultRange("blurRange")]}

\* ------------------------------------------------------------------- state

VARIABLES
    config,   \* the configuration captured by createImageAugmentor
    inv,      \* inv[i]: the state of invocation i of the returned function
    outFile   \* the file 'out.png' of the working directory

vars == <<config, inv, outFile>>

NoStage == [stage |-> "none", params |-> <<>>, regions |-> <<>>, image |-> NoImage]

\* An invocation that has not been made.
Idle ==
    [pc |-> "idle", input |-> NoImage, width |-> 0, height |-> 0,
     canvas |-> NoImage, draws |-> 0, ops |-> <<>>, last |-> NoStage,
     output |-> NoImage]

\* applyTransformations(imageBuffer, config) entered with a w x h image.
Called(w, h) == [Idle EXCEPT !.pc = "metadata", !.input = Image(w, h, 0, 0, TRUE)]

NoFile == [written |-> FALSE, writers |-> {}, width |-> 0, height |-> 0]

\* One invocation of an augmentor built from any configuration.
Init ==
    /\ config \in Configs
    /\ \E w \in Dims, h \in Dims :
           inv = [i \in Invs |-> IF i = 1 THEN Called(w, h) ELSE Idle]
    /\ outFile = NoFile

\* Every invocation made, all of the same augmentor.
InitConc ==
    /\ config \in ConcConfigs
    /\ inv \in [Invs -> {Called(w, h) : w \in Dims, h \in Dims}]
    /\ outFile = NoFile

\* Math.max(width, height)
Padding(s) == Max(s.width, s.height)

WrapperWidth(s) == s.width + 2 * Padding(s)

WrapperHeight(s) == s.height + 2 * Padding(s)

\* Invocation i moves to position pc with its record changed to s.
Goto(i, s, pc) == inv' = [inv EXCEPT ![i] = [s EXCEPT !.pc = pc]]

\* What a stage leaves behind: its sampled parameters, the extracts it issued
\* and the image it produced before its center crop.
Stage(name, params, regions, img) ==
    [stage |-> name, params |-> params, regions |-> regions, image |-> img]

\* const metadata = await sharpImage.metadata()
Metadata(i) ==
    /\ inv[i].pc = "metadata"
    /\ Goto(i, [inv[i] EXCEPT !.width = inv[i].input.width,
                              !.height = inv[i].input.height], "canvas")
    /\ UNCHANGED <<config, outFile>>

\* The blank canvas with the source composited at (padding, padding).
Canvas(i) ==
    /\ inv[i].pc = "canvas"
    /\ LET s == inv[i]
       IN  Goto(i, [s EXCEPT !.canvas = Image(WrapperWidth(s), WrapperHeight(s),
                                              Padding(s), Padding(s), TRUE),
                             !.ops = s.ops \o <<"create", "composite">>], "blur")
    /\ UNCHANGED <<config, outFile>>

\* What a photometric stage makes of invocation record s: one draw and one
\* operation when its range is truthy, the raster's size unchanged; nothing
\* otherwise.
PhotometricStage(s, name, range, op, params) ==
    IF Truthy(range)
    THEN {[s EXCEPT !.draws = s.draws + 1,
                    !.ops = Append(s.ops, op),
                    !.last = Stage(name, params[k], <<>>, s.canvas)] : k \in Rands}
    ELSE {s}

Blur(i) ==
    /\ inv[i].pc = "blur"
    /\ \E t \in PhotometricStage(inv[i], "blur", config["blurRange"], "blur",
                                 [k \in Rands |-> <<BlurSigma(config["blurRange"], k)>>]) :
           Goto(i, t, "sharpen")
    /\ UNCHANGED <<config, outFile>>

\* The sharpen sigma lies k / RandDen of the way from minSharpenSigma to
\* maxSharpenSigma; the stage records maxSharpenSigma (over RangeDen) and k.
Sharpen(i) ==
    /\ inv[i].pc = "sharpen"
    /\ \E t \in PhotometricStage(inv[i], "sharpen", config["sharpenRange"], "sharpen",
                                 [k \in Rands |->
                                     <<MaxSharpenSigma(config["sharpenRange"]), k>>]) :
           Goto(i, t, "brightness")
    /\ UNCHANGED <<config, outFile>>

Brightness(i) ==
    /\ inv[i].pc = "brightness"
    /\ \E t \in PhotometricStage(inv[i], "brightness", config["brightnessRange"], "modulate",
                                 [k \in Rands |->
                                     <<GetRandomInRange(config["brightnessRange"], k)>>]) :
           Goto(i, t, "saturation")
    /\ UNCHANGED <<config, outFile>>

Saturation(i) ==
    /\ inv[i].pc = "saturation"
    /\ \E t \in PhotometricStage(inv[i], "saturation", config["saturationRange"], "modulate",
                                 [k \in Rands |->
                                     <<GetRandomInRange(config["saturationRange"], k)>>]) :
           Goto(i, t, "contrast")
    /\ UNCHANGED <<config, outFile>>

Contrast(i) ==
    /\ inv[i].pc = "contrast"
    /\ \E t \in PhotometricStage(inv[i], "contrast", config["contrastRange"], "modulate",
                                 [k \in Rands |->
                                     <<GetRandomInRange(config["contrastRange"], k)>>]) :
           Goto(i, t, "shear")
    /\ UNCHANGED <<config, outFile>>

\* cropToCenter(transformedImage, width, height): the region it extracts.
CropToCenter(img, width, height) ==
    LET centerX == Floor(width, 2)
        centerY == Floor(height, 2)
        halfOriginalWidth == Floor(width, 2)
        halfOriginalHeight == Floor(height, 2)
        left == Max(0, centerX - halfOriginalWidth)
        top == Max(0, centerY - halfOriginalHeight)
    IN  Region(left, top, width, height, img)

\* The end of a geometric stage: img is what the stage's transform produced
\* (ok: without a failed extract), and cropToCenter cuts it to the wrapper size.
CropStage(i, name, params, img, regions, ok, ops, drawn, next) ==
    LET s == inv[i]
        crop == CropToCenter(img, WrapperWidth(s), WrapperHeight(s))
        t == [s EXCEPT !.draws = s.draws + drawn]
    IN  IF ~ok
        THEN Goto(i, [t EXCEPT !.ops = s.ops \o ops,
                               !.last = Stage(name, params, regions, img)], "rejected")
        ELSE IF ~RegionOk(crop)
        THEN Goto(i, [t EXCEPT !.ops = s.ops \o ops \o <<"extract">>,
                               !.last = Stage(name, params, Append(regions, crop), img)],
                  "rejected")
        ELSE Goto(i, [t EXCEPT !.ops = s.ops \o ops \o <<"extract", "flatten">>,
                               !.canvas = Extract(img, crop.left, crop.top,
                                                  crop.width, crop.height),
                               !.last = Stage(name, params, Append(regions, crop), img)],
                  next)

Shear(i) ==
    /\ inv[i].pc = "shear"
    /\ LET s == inv[i]
           range == config["shearRange"]
       IN  IF Truthy(range)
           THEN \E kx \in Rands, ky \in Rands :
                    LET randomShearX == GetRandomInRange(range, kx)
                        randomShearY == GetRandomInRange(range, ky)
                        img == Resize(Affine(s.canvas, randomShearX, randomShearY),
                                      WrapperWidth(s), WrapperHeight(s))
                    IN  CropStage(i, "shear", <<randomShearX, randomShearY>>, img, <<>>,
                                  TRUE, <<"affine", "resize">>, 2, "toFile1")
           ELSE Goto(i, s, "toFile1")
    /\ UNCHANGED <<config, outFile>>

\* transformedImage.toFile('out.png') by invocation i: the file after it.
ToFile(i) ==
    [written |-> TRUE, writers |-> outFile.writers \cup {i},
     width |-> inv[i].canvas.width, height |-> inv[i].canvas.height]

\* await transformedImage.toFile('out.png')
SaveAfterShear(i) ==
    /\ inv[i].pc = "toFile1"
    /\ outFile' = ToFile(i)
    /\ Goto(i, inv[i], "rotation")
    /\ UNCHANGED config

Rotation(i) ==
    /\ inv[i].pc = "rotation"
    /\ LET s == inv[i]
           range == config["rotationRange"]
       IN  IF Truthy(range)
           THEN \E k \in Rands :
                    LET randomRotationAngle == GetRandomInRange(range, k)
                    IN  \E wh \in RotatedSizes(s.canvas, randomRotationAngle) :
                            CropStage(i, "rotation", <<randomRotationAngle>>,
                                      Resize(Rotate(s.canvas, randomRotationAngle, wh),
                                             WrapperWidth(s), WrapperHeight(s)),
                                      <<>>, TRUE, <<"rotate", "resize">>, 1, "transpose")
           ELSE Goto(i, s, "transpose")
    /\ UNCHANGED <<config, outFile>>

\* transposeImage(transformedImage, transposeX, transposeY, width, height, bg):
\* the image it returns, the extracts it issues (up to the first that fails),
\* the operations it calls and the offsets it uses.
TransposeImage(img, transposeX0, transposeY0, width, height) ==
    LET transposeX == Min(transposeX0, width)
        transposeY == Min(transposeY0, height)
        newWidth == width - Abs(transposeX)
        newHeight == height - Abs(transposeY)
        extX == Extend(img, 0, 0, -transposeX, 0)
        regX == IF transposeX >= 0
                THEN Region(transposeX, 0, newWidth, height, img)
                ELSE Region(0, 0, newWidth, height, extX)
        imgX == IF transposeX >= 0
                THEN Extend(Extract(img, transposeX, 0, newWidth, height),
                            0, 0, transposeX, 0)
                ELSE Extract(extX, 0, 0, newWidth, height)
        extY == Extend(imgX, -transposeY, 0, 0, 0)
        regY == IF transposeY >= 0
                THEN Region(0, transposeY, newWidth, newHeight, imgX)
                ELSE Region(0, 0, newWidth, newHeight, extY)
        imgY == IF transposeY >= 0
                THEN Extend(Extract(imgX, 0, transposeY, newWidth, newHeight),
                            transposeY, 0, 0, 0)
                ELSE Extract(extY, 0, 0, newWidth, newHeight)
        opsX == IF transposeX >= 0 THEN <<"extract", "extend">> ELSE <<"extend", "extract">>
        opsY == IF transposeY >= 0 THEN <<"extract", "extend">> ELSE <<"extend", "extract">>
    IN  IF ~RegionOk(regX)
        THEN [image |-> img, regions |-> <<regX>>, ok |-> FALSE,
              ops |-> IF transposeX >= 0 THEN <<"extract">> ELSE opsX,
              used |-> <<transposeX, transposeY>>]
        ELSE IF ~RegionOk(regY)
        THEN [image |-> imgX, regions |-> <<regX, regY>>, ok |-> FALSE,
              ops |-> opsX \o (IF transposeY >= 0 THEN <<"extract">> ELSE opsY),
              used |-> <<transposeX, transposeY>>]
        ELSE [image |-> imgY, regions |-> <<regX, regY>>, ok |-> TRUE,
              ops |-> opsX \o opsY, used |-> <<transposeX, transposeY>>]

\* The transpose stage; its parameters are the two sampled offsets followed by
\* the two offsets transposeImage uses.
Transpose(i) ==
    /\ inv[i].pc = "transpose"
    /\ LET s == inv[i]
           range == config["transposeRange"]
       IN  IF Truthy(range)
           THEN \E kx \in Rands, ky \in Rands :
                    LET randomTransposeX == RandomTranspose(range, kx)
                        randomTransposeY == RandomTranspose(range, ky)
                        r == TransposeImage(s.canvas, randomTransposeX, randomTransposeY,
                                            WrapperWidth(s), WrapperHeight(s))
                    IN  CropStage(i, "transpose",
                                  <<randomTransposeX, randomTransposeY>> \o r.used,
                                  r.image, r.regions, r.ok, r.ops, 2, "toFile2")
           ELSE Goto(i, s, "toFile2")
    /\ UNCHANGED <<config, outFile>>

\* await transformedImage.toFile('out.png')
SaveAfterTranspose(i) ==
    /\ inv[i].pc = "toFile2"
    /\ outFile' = ToFile(i)
    /\ Goto(i, inv[i], "zoom")
    /\ UNCHANGED config

\* Math.max(1 / (1 + Math.abs(randomZoomFactor)), 1) as <<numerator, denominator>>,
\* for a factor f over SampleDen.
ScaleFactor(f) ==
    IF SampleDen >= SampleDen + Abs(f)
    THEN <<SampleDen, SampleDen + Abs(f)>>
    ELSE <<1, 1>>

\* extend accepts whole, non-negative amounts: twice is twice the amount.
ExtendOk(twice) == twice >= 0 /\ twice % 2 = 0

\* The zoom stage; its parameters are the sampled factor and zoomX, zoomY.
Zoom(i) ==
    /\ inv[i].pc = "zoom"
    /\ LET s == inv[i]
           range == config["zoomRange"]
       IN  IF Truthy(range)
           THEN \E k \in Rands :
                    LET randomZoomFactor == CenteredSample(range, k)
                        scaleFactor == ScaleFactor(randomZoomFactor)
                        zoomX == IF randomZoomFactor >= 0
                                 THEN Round(WrapperWidth(s) * (SampleDen + randomZoomFactor),
                                            SampleDen)
                                 ELSE Round(WrapperWidth(s) * scaleFactor[1], scaleFactor[2])
                        zoomY == IF randomZoomFactor >= 0
                                 THEN Round(WrapperHeight(s) * (SampleDen + randomZoomFactor),
                                            SampleDen)
                                 ELSE Round(WrapperHeight(s) * scaleFactor[1], scaleFactor[2])
                        resized == Resize(s.canvas, zoomX, zoomY)
                        t == [s EXCEPT !.draws = s.draws + 1,
                                       !.last = Stage("zoom", <<randomZoomFactor, zoomX, zoomY>>,
                                                      <<>>, resized)]
                    IN  IF randomZoomFactor >= 0
                        THEN Goto(i, [t EXCEPT !.ops = s.ops \o <<"resize">>,
                                               !.canvas = resized], "toFile3")
                        ELSE IF ExtendOk(zoomY - s.height) /\ ExtendOk(zoomX - s.width)
                        THEN Goto(i, [t EXCEPT !.ops = s.ops \o <<"resize", "extend">>,
                                               !.canvas = Extend(resized,
                                                                 (zoomY - s.height) \div 2,
                                                                 (zoomY - s.height) \div 2,
                                                                 (zoomX - s.width) \div 2,
                                                                 (zoomX - s.width) \div 2)],
                                  "toFile3")
                        ELSE Goto(i, [t EXCEPT !.ops = s.ops \o <<"resize">>], "rejected")
           ELSE Goto(i, s, "toFile3")
    /\ UNCHANGED <<config, outFile>>

\* await transformedImage.toFile('out.png')
SaveAfterZoom(i) ==
    /\ inv[i].pc = "toFile3"
    /\ outFile' = ToFile(i)
    /\ Goto(i, inv[i], "extract")
    /\ UNCHANGED config

\* The final region with the half sizes rounded up instead of down.
FinalRegionCeil(s) ==
    LET centerX == Floor(s.canvas.width, 2)
        centerY == Floor(s.canvas.height, 2)
        halfOriginalWidth == Floor(s.width + 1, 2)
        halfOriginalHeight == Floor(s.height + 1, 2)
        left == Max(0, centerX - halfOriginalWidth)
        top == Max(0, centerY - halfOriginalHeight)
    IN  Region(left, top, s.width, s.height, s.canvas)

\* The region the final extractor cuts out of the canvas.
FinalRegion(s) ==
    LET centerX == Floor(s.canvas.width, 2)
        centerY == Floor(s.canvas.height, 2)
        halfOriginalWidth == Floor(s.width, 2)
        halfOriginalHeight == Floor(s.height, 2)
        left == Max(0, centerX - halfOriginalWidth)
        top == Max(0, centerY - halfOriginalHeight)
    IN  Region(left, top, s.width, s.height, s.canvas)

\* Extract the center part, resize it to the original size and return it.
FinalExtract(i) ==
    /\ inv[i].pc = "extract"
    /\ LET s == inv[i]
           r == FinalRegion(s)
       IN  IF RegionOk(r)
           THEN Goto(i, [s EXCEPT !.ops = s.ops \o <<"extract", "resize">>,
                                  !.last = Stage("extract", <<>>, <<r>>, s.canvas),
                                  !.output = Resize(Extract(s.canvas, r.left, r.top,
                                                            r.width, r.height),
                                                    s.width, s.height)],
                     "resolved")
           ELSE Goto(i, [s EXCEPT !.ops = s.ops \o <<"extract">>,
                                  !.last = Stage("extract", <<>>, <<r>>, s.canvas)],
                     "rejected")
    /\ UNCHANGED <<config, outFile>>

Next ==
    \E i \in Invs :
        \/ Metadata(i)
        \/ Canvas(i)
        \/ Blur(i)
        \/ Sharpen(i)
        \/ Brightness(i)
        \/ Saturation(i)
        \/ Contrast(i)
        \/ Shear(i)
        \/ SaveAfterShear(i)
        \/ Rotation(i)
        \/ Transpose(i)
        \/ SaveAfterTranspose(i)
        \/ Zoom(i)
        \/ SaveAfterZoom(i)
        \/ FinalExtract(i)

\* One invocation, every configuration.
Spec == Init /\ [][Next]_vars

\* Concurrent invocations of one augmentor, interleaved at every step.
ConcSpec == InitConc /\ [][Next]_vars

\* ------------------------------------------------------------------ claims

\* The position at which an effect's stage runs, and the one after it.
StageOf(e) ==
    CASE e = "blurRange" -> "blur"
      [] e = "sharpenRange" -> "sharpen"
      [] e = "brightnessRange" -> "brightness"
      [] e = "saturationRange" -> "saturation"
      [] e = "contrastRange" -> "contrast"
      [] e = "shearRange" -> "shear"
      [] e = "rotationRange" -> "rotation"
      [] e = "transposeRange" -> "transpose"
      [] e = "zoomRange" -> "zoom"

AfterStage(e) ==
    CASE e = "blurRange" -> "sharpen"
      [] e = "sharpenRange" -> "brightness"
      [] e = "brightnessRange" -> "saturation"
      [] e = "saturationRange" -> "contrast"
      [] e = "contrastRange" -> "shear"
      [] e = "shearRange" -> "toFile1"
      [] e = "rotationRange" -> "transpose"
      [] e = "transposeRange" -> "toFile2"
      [] e = "zoomRange" -> "toFile3"

\* The effects sampled by getRandomInRange.
SymmetricEffects ==
    {"shearRange", "rotationRange", "brightnessRange", "saturationRange", "contrastRange"}

NonNegativeConfig == \A e \in Effects : config[e] >= 0

\* C1: for every configuration of non-negative ranges and every w x h input,
\* an invocation is never rejected, and when it has resolved its output is
\* w x h.
C1_AlwaysResolvesSameSize ==
    NonNegativeConfig =>
        \A i \in Invs :
            /\ inv[i].pc # "rejected"
            /\ inv[i].pc = "resolved" =>
                   /\ inv[i].output.width = inv[i].input.width
                   /\ inv[i].output.height = inv[i].input.height

\* C2: concurrent invocations share no mutable resource: no file is written by
\* more than one invocation.
C2_NoSharedFile == Cardinality(outFile.writers) <= 1

\* C3: a stage whose range is 0 draws nothing, performs no operation, hands
\* the canvas on unchanged to the next stage and raises no error.
C3_DisabledStageSkipped ==
    [][\A i \in Invs : \A e \in Effects :
           (inv[i].pc = StageOf(e) /\ config[e] = 0) =>
               /\ inv'[i].draws = inv[i].draws
               /\ inv'[i].ops = inv[i].ops
               /\ inv'[i].canvas = inv[i].canvas
               /\ inv'[i].last = inv[i].last
               /\ inv'[i].pc \in {StageOf(e), AfterStage(e)}]_vars

\* An invocation has resolved after skipping at least one stage and applying
\* at least one.
C3_Witness ==
    \E i \in Invs :
        /\ inv[i].pc = "resolved"
        /\ \E e \in Effects : config[e] = 0
        /\ inv[i].draws > 0

\* C4 as stated: an invocation whose configuration holds a negative range
\* never resolves with an image.
C4_NegativeNeverResolves ==
    (\E e \in Effects : config[e] < 0) => \A i \in Invs : inv[i].pc # "resolved"

\* C4 as amended: a negative range is not rejected. Its stage runs like an
\* enabled one: it draws, and for the effects sampled by getRandomInRange the
\* parameter lies in [-|r|, +|r|]; the invocation is still running or resolved
\* with an image of the input's size once that stage is passed.
C4_NegativeRangeSampled ==
    \A i \in Invs : \A e \in SymmetricEffects :
        (config[e] < 0 /\ inv[i].last.stage = StageOf(e)) =>
            /\ inv[i].draws > 0
            /\ inv[i].pc # "rejected"
            /\ \A j \in 1 .. Len(inv[i].last.params) :
                   /\ inv[i].last.params[j] >= config[e] * RandDen
                   /\ inv[i].last.params[j] <= -config[e] * RandDen
            /\ inv[i].pc = "resolved" =>
                   /\ inv[i].output.width = inv[i].input.width
                   /\ inv[i].output.height = inv[i].input.height

\* An invocation configured with a negative range has resolved with an image
\* of the input's size, its stage applied.
C4_Witness ==
    \E i \in Invs : \E e \in SymmetricEffects :
        /\ config[e] < 0
        /\ inv[i].pc = "resolved"
        /\ inv[i].draws > 0
        /\ inv[i].output.width = inv[i].input.width
        /\ inv[i].output.height = inv[i].input.height

\* C5: with every range 0, the final extractor cuts out exactly the rectangle
\* the canvas expander composited the source into: left = top = max(w, h),
\* width w, height h; the output is the source picture, unmoved and unscaled.
C5_IdentityRegion ==
    \A i \in Invs :
        (config = ZeroConfig /\ inv[i].last.stage = "extract") =>
            LET w == inv[i].input.width
                h == inv[i].input.height
                p == IF w >= h THEN w ELSE h
                r == inv[i].last.regions[1]
            IN  /\ r.left = p /\ r.top = p /\ r.width = w /\ r.height = h
                /\ r.imgWidth = w + 2 * p /\ r.imgHeight = h + 2 * p
                /\ inv[i].last.image.left = p /\ inv[i].last.image.top = p
                /\ inv[i].last.image.exact
                /\ inv[i].pc = "resolved"
                /\ inv[i].output = Image(w, h, 0, 0, TRUE)

\* The identity pipeline has resolved for an input of odd width and w # h.
C5_Witness ==
    \E i \in Invs :
        /\ config = ZeroConfig
        /\ inv[i].pc = "resolved"
        /\ inv[i].input.width % 2 = 1
        /\ inv[i].input.width # inv[i].input.height

\* C6: for a symmetric effect with a positive range r, the parameter passed to
\* the transform lies in [-r, +r]; for transpose, the rounded offsets do.
C6_SymmetricWithinRange ==
    \A i \in Invs :
        /\ \A e \in SymmetricEffects :
               (config[e] > 0 /\ inv[i].last.stage = StageOf(e)) =>
                   \A j \in 1 .. Len(inv[i].last.params) :
                       /\ inv[i].last.params[j] >= -config[e] * RandDen
                       /\ inv[i].last.params[j] <= config[e] * RandDen
        /\ (config["transposeRange"] > 0 /\ inv[i].last.stage = "transpose") =>
               \A j \in 1 .. 4 :
                   /\ inv[i].last.params[j] * RangeDen >= -config["transposeRange"]
                   /\ inv[i].last.params[j] * RangeDen <= config["transposeRange"]

\* C7 as stated: for a positive blurRange the sigma passed to blur lies in
\* [0.3, min(blurRange * 10, 1000)].
C7_SigmaWithinStatedInterval ==
    \A i \in Invs :
        (config["blurRange"] > 0 /\ inv[i].last.stage = "blur") =>
            /\ inv[i].last.params[1] >= 3 * SampleDen
            /\ inv[i].last.params[1] <= 100 * config["blurRange"] * RandDen
            /\ inv[i].last.params[1] <= 1000 * SigmaDen

\* C7 as amended: for a positive blurRange the sigma passed to blur lies in
\* [0.3, max(0.3, min(blurRange * 10, 1000))]: it never exceeds 1000, and it
\* exceeds blurRange * 10 only when that is below 0.3, and is then 0.3.
C7_SigmaWithinFlooredInterval ==
    \A i \in Invs :
        (config["blurRange"] > 0 /\ inv[i].last.stage = "blur") =>
            LET sigma == inv[i].last.params[1]
                tenfold == 100 * config["blurRange"] * RandDen
                floor == 3 * SampleDen
                ceiling == 1000 * SigmaDen
                upper == IF tenfold <= ceiling THEN tenfold ELSE ceiling
            IN  /\ sigma >= floor
                /\ sigma <= (IF upper >= floor THEN upper ELSE floor)
                /\ sigma <= ceiling
                /\ sigma > tenfold => (tenfold < floor /\ sigma = floor)

\* A blur has run with blurRange * 10 below 0.3, and its sigma was 0.3.
C7_Witness ==
    \E i \in Invs :
        /\ config["blurRange"] > 0
        /\ 100 * config["blurRange"] * RandDen < 3 * SampleDen
        /\ inv[i].last.stage = "blur"
        /\ inv[i].last.params[1] = 3 * SampleDen
        /\ inv[i].draws = 1
        /\ inv[i].pc = "sharpen"

\* C8: after each of the shear, rotation and transpose stages the canvas has
\* the working-canvas size, and the stage's center crop asks for a region
\* inside the image the stage produced.
C8_StageKeepsCanvasSize ==
    \A i \in Invs :
        (NonNegativeConfig /\ inv[i].last.stage \in {"shear", "rotation", "transpose"}) =>
            LET w == inv[i].input.width
                h == inv[i].input.height
                p == IF w >= h THEN w ELSE h
                n == Len(inv[i].last.regions)
            IN  /\ inv[i].pc # "rejected"
                /\ inv[i].canvas.width = w + 2 * p
                /\ inv[i].canvas.height = h + 2 * p
                /\ RegionOk(inv[i].last.regions[n])

\* C9: transposeImage with a positive dx below the canvas width (dy = 0)
\* leaves the picture dx columns to the left in a canvas of unchanged width;
\* likewise a positive dy (dx = 0) leaves it dy rows up.
C9_PositiveOffsetShifts ==
    \A i \in Invs :
        (/\ inv[i].last.stage = "transpose"
         /\ config["transposeRange"] > 0
         /\ config["shearRange"] = 0
         /\ config["rotationRange"] = 0) =>
            LET w == inv[i].input.width
                h == inv[i].input.height
                p == IF w >= h THEN w ELSE h
                dx == inv[i].last.params[3]
                dy == inv[i].last.params[4]
                out == inv[i].last.image
            IN  /\ (dx > 0 /\ dx < w + 2 * p /\ dy = 0) =>
                       (out.left = p - dx /\ out.top = p /\ out.width = w + 2 * p)
                /\ (dy > 0 /\ dy < h + 2 * p /\ dx = 0) =>
                       (out.top = p - dy /\ out.left = p /\ out.height = h + 2 * p)

\* C10: the offsets transposeImage uses have magnitude at most the canvas size
\* in their axis, and every extract it issues has non-negative left and top
\* and a positive width and height inside the image it is applied to.
C10_OffsetsCappedExtractsValid ==
    \A i \in Invs :
        (config["transposeRange"] > 0 /\ inv[i].last.stage = "transpose") =>
            LET w == inv[i].input.width
                h == inv[i].input.height
                p == IF w >= h THEN w ELSE h
                dx == inv[i].last.params[3]
                dy == inv[i].last.params[4]
                n == IF Len(inv[i].last.regions) < 2 THEN Len(inv[i].last.regions) ELSE 2
            IN  /\ dx <= w + 2 * p /\ -dx <= w + 2 * p
                /\ dy <= h + 2 * p /\ -dy <= h + 2 * p
                /\ \A j \in 1 .. n : RegionOk(inv[i].last.regions[j])

\* C11: after the zoom stage with a positive zoomRange, whatever the sign of
\* the sampled factor, the stage has not failed and the canvas handed on has
\* exactly the working-canvas size (w + 2p) x (h + 2p), p = max(w, h).
C11_ZoomRestoresCanvasSize ==
    \A i \in Invs :
        (config["zoomRange"] > 0 /\ inv[i].last.stage = "zoom") =>
            LET w == inv[i].input.width
                h == inv[i].input.height
                p == IF w >= h THEN w ELSE h
            IN  /\ inv[i].pc # "rejected"
                /\ inv[i].canvas.width = w + 2 * p
                /\ inv[i].canvas.height = h + 2 * p

====
